---- MODULE Spec2Model ----
(***************************************************************************)
(* Model of include/types/mode_descriptor.h of libdabcommon: the           *)
(* mode_descriptor class template, its four instantiations mode_1..mode_4  *)
(* and the constexpr helper detail::next_power_of_two.                     *)
(*                                                                         *)
(* One behaviour is the instantiation of one mode_descriptor<...>: the     *)
(* member constants are evaluated in declaration order, and the recursion  *)
(* of next_power_of_two is unfolded one call per step.  All arithmetic is  *)
(* std::size_t arithmetic, i.e. modulo 2^WordBits.                         *)
(***************************************************************************)
EXTENDS Integers, FiniteSets, Sequences, TLC

(* Width of std::size_t in the model (64 on the usual targets; scaled down *)
(* so that 2^WordBits is a machine integer of the checker, and still wide  *)
(* enough for every literal of mode_1..mode_4).                            *)
WordBits == 18

Modulus == 2 ^ WordBits

(* Synthetic template arguments: carriers 0..MaxCarriers, other counts     *)
(* 0..MaxField.                                                            *)
MaxCarriers == 17

MaxField == 3

(* template<std::size_t Carriers, ..., std::size_t NullDuration>           *)
(* struct mode_descriptor: the nine template arguments, each a size_t.     *)
mode_descriptor(C, FS, Fic, Fib, Cif, FD, GD, SD, ND) ==
  [Carriers |-> C % Modulus, FrameSymbols |-> FS % Modulus,
   FicSymbols |-> Fic % Modulus, FrameFibs |-> Fib % Modulus,
   FrameCifs |-> Cif % Modulus, FrameDuration |-> FD % Modulus,
   GuardDuration |-> GD % Modulus, SymbolDuration |-> SD % Modulus,
   NullDuration |-> ND % Modulus]

mode_1 == mode_descriptor(1536, 76, 3, 12, 4, 96000, 246, 1000, 1297)

mode_2 == mode_descriptor(384, 76, 3, 3, 1, 24000, 62, 250, 324)

(* mode_3 with the frame symbol count of the other three modes.            *)
mode_3_copied == mode_descriptor(192, 76, 8, 4, 1, 24000, 31, 125, 168)

mode_3 == mode_descriptor(192, 153, 8, 4, 1, 24000, 31, 125, 168)

(* mode_4 with its CIF count dropped to zero.                              *)
mode_4_no_cifs == mode_descriptor(768, 76, 3, 6, 0, 48000, 123, 500, 648)

mode_4 == mode_descriptor(768, 76, 3, 6, 2, 48000, 123, 500, 648)

(* The association of a transmission mode with its descriptor.             *)
lookup(m) ==
  CASE m = 1 -> mode_1
    [] m = 2 -> mode_2
    [] m = 3 -> mode_3
    [] m = 4 -> mode_4

(* using frame_symbols = integral_constant<size_t, FrameSymbols - 1>       *)
frame_symbols(p) == (p.FrameSymbols + Modulus - 1) % Modulus

(* msc_symbols computed from the raw symbol count, phase reference included. *)
msc_symbols_with_pr(p) == (p.FrameSymbols + Modulus - p.FicSymbols) % Modulus

(* using msc_symbols = integral_constant<size_t, frame_symbols::value - FicSymbols> *)
msc_symbols(p) == (frame_symbols(p) + Modulus - p.FicSymbols) % Modulus

(* The division of fib_codeword_bits is a constant expression only for a   *)
(* non-zero divisor; otherwise the instantiation is ill-formed.            *)
well_formed(p) == p.FrameCifs # 0

(* using fib_codeword_bits = integral_constant<size_t, frame_fibs::value * 256 / frame_cifs::value> *)
fib_codeword_bits(p) == ((p.FrameFibs * 256) % Modulus) \div p.FrameCifs

(* using symbol_bits = integral_constant<size_t, carriers::value * 2>      *)
symbol_bits(p) == (p.Carriers * 2) % Modulus

(* next_power_of_two with the comparison start >= value.                   *)
next_power_of_two_ge(value_, start_) ==
  IF start_ >= value_
    THEN [returned |-> TRUE, start |-> start_]
    ELSE [returned |-> FALSE, start |-> (start_ * 2) % Modulus]

(* next_power_of_two returning value instead of start.                     *)
next_power_of_two_value(value_, start_) ==
  IF start_ > value_
    THEN [returned |-> TRUE, start |-> value_]
    ELSE [returned |-> FALSE, start |-> (start_ * 2) % Modulus]

(* One call of                                                             *)
(*   return start > value ? start : next_power_of_two(value, start * 2);   *)
(* either returns start or makes the recursive call with start * 2.        *)
next_power_of_two(value_, start_) ==
  IF start_ > value_
    THEN [returned |-> TRUE, start |-> start_]
    ELSE [returned |-> FALSE, start |-> (start_ * 2) % Modulus]

(* A default argument of 2.                                                *)
default_start_two == 1 + 1

(* The default argument std::size_t const start = 1.                       *)
default_start == 1

VARIABLES mode, p, pc, d, value, start

vars == <<mode, p, pc, d, value, start>>

EdgeCarriers ==
  {Modulus \div 2 - 1, Modulus \div 2, Modulus \div 2 + 1, Modulus - 1}

SyntheticDescriptors ==
  { mode_descriptor(c, fs, fic, fib, cif, 0, 0, 0, 0) :
      c \in (0..MaxCarriers) \cup EdgeCarriers,
      fs \in 0..MaxField, fic \in 0..MaxField,
      fib \in 0..MaxField, cif \in 0..MaxField }

NoValues ==
  [frame_symbols |-> 0, msc_symbols |-> 0, fib_codeword_bits |-> 0,
   symbol_bits |-> 0, fft_length |-> 0]

(* mode 1..4: one of the four descriptors of the header; mode 0: any other *)
(* instantiation of the template.                                          *)
Init ==
  /\ mode \in 0..4
  /\ IF mode = 0 THEN p \in SyntheticDescriptors ELSE p = lookup(mode)
  /\ pc = "start"
  /\ d = NoValues
  /\ value = 0
  /\ start = 0

(* Instantiation of the member constants up to the call                    *)
(* detail::next_power_of_two(carriers::value).                             *)
Instantiate ==
  /\ pc = "start"
  /\ well_formed(p)
  /\ d' = [frame_symbols |-> frame_symbols(p),
           msc_symbols |-> msc_symbols(p),
           fib_codeword_bits |-> fib_codeword_bits(p),
           symbol_bits |-> symbol_bits(p),
           fft_length |-> 0]
  /\ value' = p.Carriers
  /\ start' = default_start
  /\ pc' = "npot"
  /\ UNCHANGED <<mode, p>>

(* A division guarded as FrameCifs ? FrameFibs * 256 / FrameCifs : 0: the  *)
(* instantiation goes through with a codeword size of 0.                   *)
IllFormed_guarded ==
  /\ pc = "start"
  /\ ~well_formed(p)
  /\ d' = [frame_symbols |-> frame_symbols(p),
           msc_symbols |-> msc_symbols(p),
           fib_codeword_bits |-> 0,
           symbol_bits |-> symbol_bits(p),
           fft_length |-> 0]
  /\ value' = p.Carriers
  /\ start' = default_start
  /\ pc' = "npot"
  /\ UNCHANGED <<mode, p>>

(* frame_fibs::value * 256 / 0 is not a constant expression: the           *)
(* instantiation is rejected and no member value exists.                   *)
IllFormed ==
  /\ pc = "start"
  /\ ~well_formed(p)
  /\ pc' = "ill_formed"
  /\ UNCHANGED <<mode, p, d, value, start>>

(* One call of next_power_of_two(value, start).                            *)
NextPowerOfTwo ==
  /\ pc = "npot"
  /\ LET r == next_power_of_two(value, start) IN
       IF r.returned
         THEN /\ d' = [d EXCEPT !.fft_length = r.start]
              /\ pc' = "done"
              /\ UNCHANGED start
         ELSE /\ start' = r.start
              /\ UNCHANGED <<d, pc>>
  /\ UNCHANGED <<mode, p, value>>

Next == Instantiate \/ IllFormed \/ NextPowerOfTwo

Spec == Init /\ [][Next]_vars

IsPowerOfTwo(x) == \E k \in 0..WordBits : x = 2 ^ k

TypeOK ==
  /\ mode \in 0..4
  /\ pc \in {"start", "npot", "done", "ill_formed"}
  /\ value \in 0..(Modulus - 1)
  /\ start \in 0..(Modulus - 1)

Instantiated == pc \in {"npot", "done"}

C3_CanonicalPrimary ==
  /\ mode = 1 => p = [Carriers |-> 1536, FrameSymbols |-> 76, FicSymbols |-> 3,
                      FrameFibs |-> 12, FrameCifs |-> 4, FrameDuration |-> 96000,
                      GuardDuration |-> 246, SymbolDuration |-> 1000,
                      NullDuration |-> 1297]
  /\ mode = 2 => p = [Carriers |-> 384, FrameSymbols |-> 76, FicSymbols |-> 3,
                      FrameFibs |-> 3, FrameCifs |-> 1, FrameDuration |-> 24000,
                      GuardDuration |-> 62, SymbolDuration |-> 250,
                      NullDuration |-> 324]
  /\ mode = 3 => p = [Carriers |-> 192, FrameSymbols |-> 153, FicSymbols |-> 8,
                      FrameFibs |-> 4, FrameCifs |-> 1, FrameDuration |-> 24000,
                      GuardDuration |-> 31, SymbolDuration |-> 125,
                      NullDuration |-> 168]
  /\ mode = 4 => p = [Carriers |-> 768, FrameSymbols |-> 76, FicSymbols |-> 3,
                      FrameFibs |-> 6, FrameCifs |-> 2, FrameDuration |-> 48000,
                      GuardDuration |-> 123, SymbolDuration |-> 500,
                      NullDuration |-> 648]

C3_Witness == mode = 3 /\ pc = "done" /\ p.FrameSymbols = 153

(* C4: the derived parameters (frame_symbols, msc_symbols,                 *)
(* fib_codeword_bits, symbol_bits, fft_length) of the four modes are       *)
(* (75,72,768,3072,2048), (75,72,768,768,512), (152,144,1024,384,256) and  *)
(* (75,72,768,1536,1024).                                                  *)
C4_CanonicalDerived ==
  /\ mode \in 1..4 => pc # "ill_formed"
  /\ (pc = "done" /\ mode = 1) =>
       d = [frame_symbols |-> 75, msc_symbols |-> 72, fib_codeword_bits |-> 768,
            symbol_bits |-> 3072, fft_length |-> 2048]
  /\ (pc = "done" /\ mode = 2) =>
       d = [frame_symbols |-> 75, msc_symbols |-> 72, fib_codeword_bits |-> 768,
            symbol_bits |-> 768, fft_length |-> 512]
  /\ (pc = "done" /\ mode = 3) =>
       d = [frame_symbols |-> 152, msc_symbols |-> 144, fib_codeword_bits |-> 1024,
            symbol_bits |-> 384, fft_length |-> 256]
  /\ (pc = "done" /\ mode = 4) =>
       d = [frame_symbols |-> 75, msc_symbols |-> 72, fib_codeword_bits |-> 768,
            symbol_bits |-> 1536, fft_length |-> 1024]

C4_Witness == mode = 1 /\ pc = "done" /\ d.fft_length = 2048

(* C5 (as claimed): a descriptor with frame_cifs > 0 that does not divide  *)
(* frame_fibs * 256 yields an error and no fib_codeword_bits value; the    *)
(* quotient is never truncated.                                            *)
C5_InvalidCifPartition ==
  (p.FrameCifs > 0 /\ (p.FrameFibs * 256) % p.FrameCifs # 0 /\ pc # "start") =>
    ~Instantiated

(* C6 (as claimed): a descriptor with frame_symbols_raw = 0 or with        *)
(* fic_symbols > frame_symbols_raw - 1 yields an error; no frame_symbols   *)
(* or msc_symbols value obtained by wrap-around is ever produced.          *)
C6_InvalidSymbolCount ==
  /\ ((p.FrameSymbols = 0 \/ p.FicSymbols > p.FrameSymbols - 1) /\ pc # "start") =>
       ~Instantiated
  /\ Instantiated =>
       /\ d.frame_symbols = p.FrameSymbols - 1
       /\ d.msc_symbols = p.FrameSymbols - 1 - p.FicSymbols

C8_CanonicalInvariants ==
  mode \in 1..4 =>
    /\ pc # "ill_formed"
    /\ p.FrameSymbols >= 1
    /\ p.FicSymbols <= p.FrameSymbols - 1
    /\ p.FrameCifs > 0
    /\ (p.FrameFibs * 256) % p.FrameCifs = 0
    /\ Instantiated =>
         /\ d.msc_symbols = p.FrameSymbols - 1 - p.FicSymbols
         /\ d.msc_symbols >= 0
         /\ d.fib_codeword_bits * p.FrameCifs = p.FrameFibs * 256
    /\ pc = "npot" => start # 0
    /\ pc = "done" =>
         /\ IsPowerOfTwo(d.fft_length)
         /\ d.fft_length >= p.Carriers
         /\ d.fft_length \div 2 < p.Carriers

C8_Witness == mode = 4 /\ pc = "done" /\ d.msc_symbols = 72

(* C9: next_power_of_two(0) returns 1.                                     *)
C9_ZeroGivesOne == (pc = "done" /\ value = 0) => d.fft_length = 1

C9_Witness == pc = "done" /\ p.Carriers = 0 /\ start = 1 /\ d.fft_length = 1

(* C10 (as claimed): for every value representable in the w-bit word the   *)
(* running value start never wraps to 0, so the doubling search reaches    *)
(* its stop condition.                                                     *)
C10_StartNeverWraps == pc = "npot" => start # 0
====
